---- MODULE Spec2Model ----
(***************************************************************************)
(* Model of src/spatialize.js: audio device initialisation (initAudio,     *)
(* setupAudioDevice), the surround panner (createPanner, gainsFromPan,     *)
(* spkLayoutFromNChans) and the voice object (createVoice) with its        *)
(* setters, pause() and play().                                            *)
(*                                                                         *)
(* Numbers.  Channel gains are cos(normDist * PI/2); a gain is kept as the *)
(* normalised distance it is the cosine of, the fraction num/den, next to  *)
(* a flag telling a computed pan gain from the literal 0.0 of the other    *)
(* channels.  For normalised distances a, b in [0,1] the squared gains     *)
(* cos(a*PI/2)^2 + cos(b*PI/2)^2 sum to 1 exactly when a + b = 1.          *)
(* The master gain is volume * listenRadius / sqrt(dist^2); it is kept as  *)
(* the pair (n, d2) standing for n / sqrt(d2), or as one of the IEEE       *)
(* non-finite values the JavaScript division produces.                     *)
(***************************************************************************)
EXTENDS Integers, Sequences, FiniteSets, TLC

\* ------------------------------------------------------------------ bounds
MaxTheta == 400        \* target azimuths -MaxTheta..MaxTheta in SpecPan
MaxChans == 7          \* destination channel counts 1..MaxChans
MaxVolume == 2         \* volumes 0..MaxVolume
MaxRadius == 2         \* listen radii -1..MaxRadius
MaxPauses == 2         \* pause() calls per voice

\* ------------------------------------------------------- program constants
FullCircle == 360
MaxPanChans == 6
StraightAhead == -90

VARIABLES
  \* --- pan law engine applied to one input (SpecPan)
  panTheta,        \* theta argument of gainsFromPan
  panNChans,       \* channel count the layout is resolved for
  panResult,       \* value returned by gainsFromPan, <<>> before the call
  \* --- device initialisation (SpecInit)
  initPc,          \* position of initAudio: "idle", "awaitPerm", "done"
  initPromise,     \* promise returned by initAudio
  setupPc,         \* position of setupAudioDevice
  setupPromise,    \* promise returned by setupAudioDevice
  audioCtx,        \* module variable audioCtx: FALSE = null
  deviceName,      \* argument of initAudio
  devLabels,       \* labels of the enumerated audiooutput devices
  maxChannelCount, \* ctx.destination.maxChannelCount
  \* --- audio graph and voice (Spec)
  destChannelCount,\* ctx.destination.channelCount
  voice,           \* "none", "ready", "failed" (createVoice threw)
  err,             \* error raised by the last call: "none", ...
  listenerCoords, voiceCoords, volume, listenRadius,  \* fields of the voice
  merger,          \* numberOfInputs of the ChannelMergerNode, 0 = not created
  mergerToDest,    \* merger.connect(destNode) done
  gainNodes,       \* number of per-channel GainNodes created
  mergerInputs,    \* merger inputs a per-channel gain node is connected to
  pannerNChans,    \* nChans of createPanner, 0 before
  chanCmds,        \* channels that received a setTargetAtTime command
  chanTargets,     \* last target per channel gain node
  lastPan,         \* <<p>>: last value given to setPan, <<>> before
  lastGain,        \* <<g>>: last target given to fanout.gain, <<>> before
  playing,         \* media element playing
  timers,          \* pending setTimeout callbacks of pause()
  pauseCalls,      \* pause() calls made
  mediaPauses,     \* mediaElement.pause() executed
  grace            \* history of the pause()/play() grace scenario

panVars == <<panTheta, panNChans, panResult>>
initVars == <<initPc, initPromise, setupPc, setupPromise, audioCtx,
              deviceName, devLabels, maxChannelCount>>
voiceVars == <<voice, err, listenerCoords, voiceCoords, volume, listenRadius,
               merger, mergerToDest, gainNodes, mergerInputs, pannerNChans,
               chanCmds, chanTargets, lastPan, lastGain, playing,
               timers, pauseCalls, mediaPauses, grace>>
vars == <<panVars, initVars, destChannelCount, voiceVars>>

\* ------------------------------------------------------------ pan engine
\* a layout entry: an angle in degrees, or null (the LFE channel)
NullAngle == [null |-> TRUE, deg |-> 0]
Angle(deg) == [null |-> FALSE, deg |-> deg]

\* the JavaScript % operator: the result has the sign of the dividend
JsRem(n, d) == IF n >= 0 THEN n % d ELSE 0 - ((0 - n) % d)

\* the remainder alone, without the correction of the sign
modRemainderOnly(n, d) == JsRem(n, d)

mod(n, d) == JsRem(JsRem(n, d) + d, d)

\* layouts are sequences; channel i of the code is element i + 1
Layout6 == <<Angle(StraightAhead - 30), Angle(StraightAhead + 30),
             Angle(StraightAhead), NullAngle,
             Angle(StraightAhead - 115), Angle(StraightAhead + 115)>>
Layout2 == <<Angle(StraightAhead - 30), Angle(StraightAhead + 30)>>

\* spkLayoutFromNChans returns a layout for these counts and throws otherwise
LayoutDefined(nChans) == nChans = 6 \/ nChans = 2

spkLayoutFromNChans(nChans) ==
  IF nChans = 6 THEN Layout6 ELSE IF nChans = 2 THEN Layout2 ELSE <<>>

\* the loop of argExtrema from index i on; acc = [minIdx, maxIdx], 0 = null
RECURSIVE ArgExtremaLoop(_, _, _)
ArgExtremaLoop(a, i, acc) ==
  IF i > Len(a) THEN acc
  ELSE IF a[i].null THEN ArgExtremaLoop(a, i + 1, acc)
  ELSE LET mx == IF acc.maxIdx = 0 THEN i
                 ELSE IF a[i].deg > a[acc.maxIdx].deg THEN i ELSE acc.maxIdx
           mn == IF acc.minIdx = 0 THEN i
                 ELSE IF a[i].deg < a[acc.minIdx].deg THEN i ELSE acc.minIdx
       IN ArgExtremaLoop(a, i + 1, [minIdx |-> mn, maxIdx |-> mx])

argExtrema(a) == ArgExtremaLoop(a, 1, [minIdx |-> 0, maxIdx |-> 0])

\* a channel gain: the literal 0.0, or cos((num/den) * PI/2)
ZeroGain == [pan |-> FALSE, num |-> 0, den |-> 1]
equalPowPan(num, den) == [pan |-> TRUE, num |-> num, den |-> den]

\* line 139: every speaker angle relative to theta, wrapped to [0, 360)
SpkThetaRel(theta, spkTheta) ==
  [i \in 1 .. Len(spkTheta) |->
     IF spkTheta[i].null THEN NullAngle
     ELSE Angle(mod(spkTheta[i].deg - theta, FullCircle))]

\* line 144: the distance between the L and R speakers of the pair
SpkDist(rel, rSpk, lSpk) == mod(rel[rSpk].deg - rel[lSpk].deg, FullCircle)

\* the formulas of the left and the right speaker exchanged
gainsFromPanSwapped(theta, spkTheta) ==
  LET spkThetaRel == SpkThetaRel(theta, spkTheta)
      ex == argExtrema(spkThetaRel)
      rSpk == ex.minIdx
      lSpk == ex.maxIdx
      spkDist == SpkDist(spkThetaRel, rSpk, lSpk)
  IN [i \in 1 .. Len(spkTheta) |->
        IF i = lSpk THEN equalPowPan(spkThetaRel[i].deg, spkDist)
        ELSE IF i = rSpk THEN equalPowPan(FullCircle - spkThetaRel[i].deg,
                                          spkDist)
        ELSE ZeroGain]

gainsFromPan(theta, spkTheta) ==
  LET spkThetaRel == SpkThetaRel(theta, spkTheta)
      ex == argExtrema(spkThetaRel)
      rSpk == ex.minIdx
      lSpk == ex.maxIdx
      spkDist == SpkDist(spkThetaRel, rSpk, lSpk)
  IN [i \in 1 .. Len(spkTheta) |->
        IF i = lSpk THEN equalPowPan(FullCircle - spkThetaRel[i].deg, spkDist)
        ELSE IF i = rSpk THEN equalPowPan(spkThetaRel[i].deg, spkDist)
        ELSE ZeroGain]

\* ------------------------------------------------------- geometry mapper
\* coordinates are pairs <<x, y>> on the unit grid, where every azimuth is a
\* multiple of 45 degrees and atan2(..)/PI*180 is exact in IEEE doubles
CoordVals == {0, 1}
Coords == CoordVals \X CoordVals

\* Math.atan2(dy, dx) / Math.PI * 180 for dy, dx in {-1, 0, 1}
Atan2Deg(dy, dx) ==
  CASE dy = 0 /\ dx >= 0 -> 0
    [] dy = 0 /\ dx < 0 -> 180
    [] dy = 1 /\ dx = 1 -> 45
    [] dy = 1 /\ dx = 0 -> 90
    [] dy = 1 /\ dx = -1 -> 135
    [] dy = -1 /\ dx = 1 -> -45
    [] dy = -1 /\ dx = 0 -> -90
    [] dy = -1 /\ dx = -1 -> -135

panFromCoords(lc, vc) == Atan2Deg(vc[2] - lc[2], vc[1] - lc[1])

\* a master gain: n / sqrt(d2) when kind = "fin", else NaN, +Inf or -Inf
Fin(n, d2) == [kind |-> "fin", n |-> n, d2 |-> IF n = 0 THEN 1 ELSE d2]
NaN == [kind |-> "nan", n |-> 0, d2 |-> 1]
Inf == [kind |-> "inf", n |-> 0, d2 |-> 1]
NegInf == [kind |-> "ninf", n |-> 0, d2 |-> 1]
IsFinite(g) == g.kind = "fin"

\* the squared distance under the Math.sqrt of gainFromCoords
Dist2(lc, vc) ==
  (vc[1] - lc[1]) * (vc[1] - lc[1]) + (vc[2] - lc[2]) * (vc[2] - lc[2])

\* dist < listenRadius, for an integer radius
DistLess(d2, radius) == radius > 0 /\ d2 < radius * radius

\* listenRadius / dist in IEEE arithmetic
Quot(radius, d2) ==
  IF d2 = 0
  THEN (IF radius = 0 THEN NaN ELSE IF radius > 0 THEN Inf ELSE NegInf)
  ELSE Fin(radius, d2)

gainFromCoords(lc, vc, radius) ==
  IF DistLess(Dist2(lc, vc), radius) THEN Fin(1, 1)
  ELSE Quot(radius, Dist2(lc, vc))

\* this._volume * gain in IEEE arithmetic, for an integer volume >= 0
Times(v, g) ==
  CASE g.kind = "fin" -> Fin(v * g.n, g.d2)
    [] g.kind = "nan" -> NaN
    [] OTHER -> IF v = 0 THEN NaN ELSE g

\* ------------------------------------------------------------ the panner
Min(a, b) == IF a < b THEN a ELSE b

zeroTo(N) == 0 .. (N - 1)

\* the channel count of the destination taken as it is
PannerNChansUncapped(channelCount) == channelCount

\* nChans of createPanner (line 205)
PannerNChans(channelCount) == Min(channelCount, MaxPanChans)

\* createPanner(ctx, destNode) for a destination of channelCount channels:
\* the graph it has built when it returns or throws
createPanner(channelCount) ==
  LET nChans == PannerNChans(channelCount)
      ok == LayoutDefined(nChans)
      spkTheta == spkLayoutFromNChans(nChans)
  IN [merger |-> channelCount,
      mergerToDest |-> TRUE,
      nChans |-> nChans,
      gainNodes |-> nChans,
      mergerInputs |-> zeroTo(nChans),
      threw |-> ~ok,
      chanCmds |-> IF ok THEN zeroTo(nChans) ELSE {},
      chanTargets |-> IF ok THEN gainsFromPan(StraightAhead, spkTheta)
                      ELSE <<>>,
      lastPan |-> IF ok THEN <<StraightAhead>> ELSE <<>>]

\* setPan(p) of a panner of nChans channels: the targets it commands
setPan(p, nChans) == gainsFromPan(p, spkLayoutFromNChans(nChans))

\* AudioParam.setTargetAtTime takes a (restricted) float target: a NaN or
\* infinite target makes the call throw a TypeError and changes nothing
TargetAccepted(g) == IsFinite(g)

\* _updatePanner for the given fields: what it pushes and whether it throws
updatePanner(lc, vc, vol, radius, nChans) ==
  LET g == Times(vol, gainFromCoords(lc, vc, radius))
  IN [pan |-> panFromCoords(lc, vc),
      chanTargets |-> setPan(panFromCoords(lc, vc), nChans),
      gain |-> g,
      threw |-> ~TargetAccepted(g)]

\* the effect of this._updatePanner() on the panner, u = updatePanner(..)
PushUpdate(u) ==
  /\ lastPan' = <<u.pan>>
  /\ chanTargets' = u.chanTargets
  /\ chanCmds' = chanCmds \cup zeroTo(pannerNChans)
  /\ lastGain' = IF u.threw THEN lastGain ELSE <<u.gain>>
  /\ err' = IF u.threw THEN "NonFiniteGain" ELSE "none"

Volumes == 0 .. MaxVolume
Radii == -1 .. MaxRadius
ChannelCounts == 1 .. MaxChans

graphVars == <<merger, mergerToDest, gainNodes, mergerInputs, pannerNChans>>
mediaVars == <<playing, timers, pauseCalls, mediaPauses>>
otherVars == <<panVars, initVars, destChannelCount>>

\* ------------------------------------------------------------- the voice
createVoice(lc, vc, radius) ==
  /\ voice = "none"
  /\ audioCtx
  /\ LET p == createPanner(destChannelCount)
         u == updatePanner(lc, vc, 1, radius, p.nChans)
     IN /\ merger' = p.merger
        /\ mergerToDest' = p.mergerToDest
        /\ gainNodes' = p.gainNodes
        /\ mergerInputs' = p.mergerInputs
        /\ pannerNChans' = p.nChans
        /\ IF p.threw
           THEN /\ voice' = "failed"
                /\ err' = "UnsupportedLayout"
                /\ chanCmds' = p.chanCmds
                /\ chanTargets' = p.chanTargets
                /\ lastPan' = p.lastPan
                /\ UNCHANGED <<lastGain, listenerCoords, voiceCoords,
                               volume, listenRadius>>
           ELSE /\ listenerCoords' = lc
                /\ voiceCoords' = vc
                /\ listenRadius' = radius
                /\ volume' = 1
                /\ lastPan' = <<u.pan>>
                /\ chanTargets' = u.chanTargets
                /\ chanCmds' = p.chanCmds
                /\ lastGain' = IF u.threw THEN <<>> ELSE <<u.gain>>
                /\ err' = IF u.threw THEN "NonFiniteGain" ELSE "none"
                /\ voice' = IF u.threw THEN "failed" ELSE "ready"
  /\ UNCHANGED <<mediaVars, grace, otherVars>>

setListenerCoords(xy) ==
  /\ voice = "ready"
  /\ listenerCoords' = xy
  /\ PushUpdate(updatePanner(xy, voiceCoords, volume, listenRadius,
                             pannerNChans))
  /\ UNCHANGED <<voice, voiceCoords, volume, listenRadius, graphVars,
                 mediaVars, grace, otherVars>>

setVoiceCoords(xy) ==
  /\ voice = "ready"
  /\ voiceCoords' = xy
  /\ PushUpdate(updatePanner(listenerCoords, xy, volume, listenRadius,
                             pannerNChans))
  /\ UNCHANGED <<voice, listenerCoords, volume, listenRadius, graphVars,
                 mediaVars, grace, otherVars>>

setVolume(v) ==
  /\ voice = "ready"
  /\ volume' = v
  /\ PushUpdate(updatePanner(listenerCoords, voiceCoords, v, listenRadius,
                             pannerNChans))
  /\ grace' = IF grace = "replayed" THEN "none" ELSE grace
  /\ UNCHANGED <<voice, listenerCoords, voiceCoords, listenRadius, graphVars,
                 mediaVars, otherVars>>

\* pause(): the timer is set only when _updatePanner returned
pause ==
  /\ voice = "ready"
  /\ pauseCalls < MaxPauses
  /\ LET u == updatePanner(listenerCoords, voiceCoords, 0, listenRadius,
                           pannerNChans)
     IN /\ volume' = 0
        /\ PushUpdate(u)
        /\ timers' = IF u.threw THEN timers ELSE timers + 1
        /\ grace' = IF playing /\ volume = 1 /\ timers = 0 /\ ~u.threw
                       /\ listenRadius > 0
                       /\ lastGain = <<Times(1, gainFromCoords(
                              listenerCoords, voiceCoords, listenRadius))>>
                    THEN "paused" ELSE "none"
  /\ pauseCalls' = pauseCalls + 1
  /\ UNCHANGED <<voice, listenerCoords, voiceCoords, listenRadius, graphVars,
                 playing, mediaPauses, otherVars>>

\* play(): mediaElement.play() and nothing else
play ==
  /\ voice = "ready"
  /\ playing' = TRUE
  /\ grace' = IF grace = "paused" THEN "replayed" ELSE grace
  /\ UNCHANGED <<voice, err, listenerCoords, voiceCoords, volume,
                 listenRadius, graphVars, chanCmds, chanTargets, lastPan,
                 lastGain, timers, pauseCalls, mediaPauses, otherVars>>

\* the setTimeout callback of pause(): mediaElement.pause()
timerFires ==
  /\ timers > 0
  /\ timers' = timers - 1
  /\ mediaPauses' = mediaPauses + 1
  /\ playing' = FALSE
  /\ grace' = CASE grace = "replayed" -> "stopped"
                [] grace = "paused" -> "none"
                [] OTHER -> grace
  /\ UNCHANGED <<voice, err, listenerCoords, voiceCoords, volume,
                 listenRadius, graphVars, chanCmds, chanTargets, lastPan,
                 lastGain, pauseCalls, otherVars>>

InitPanIdle ==
  /\ panTheta = 0
  /\ panNChans = 2
  /\ panResult = <<>>

InitVoiceNone ==
  /\ voice = "none"
  /\ err = "none"
  /\ listenerCoords = <<0, 0>>
  /\ voiceCoords = <<0, 0>>
  /\ volume = 1
  /\ listenRadius = 1
  /\ merger = 0
  /\ mergerToDest = FALSE
  /\ gainNodes = 0
  /\ mergerInputs = {}
  /\ pannerNChans = 0
  /\ chanCmds = {}
  /\ chanTargets = <<>>
  /\ lastPan = <<>>
  /\ lastGain = <<>>
  /\ playing = FALSE
  /\ timers = 0
  /\ pauseCalls = 0
  /\ mediaPauses = 0
  /\ grace = "none"

\* the state once initAudio and the device setup have finished
Init ==
  /\ InitPanIdle
  /\ InitVoiceNone
  /\ destChannelCount \in ChannelCounts
  /\ maxChannelCount = destChannelCount
  /\ audioCtx = TRUE
  /\ initPc = "done"
  /\ initPromise = "fulfilled"
  /\ setupPc = "done"
  /\ setupPromise = "fulfilled"
  /\ deviceName = "default"
  /\ devLabels = {}

Next ==
  \/ \E lc \in Coords, vc \in Coords, r \in Radii : createVoice(lc, vc, r)
  \/ \E xy \in Coords : setListenerCoords(xy)
  \/ \E xy \in Coords : setVoiceCoords(xy)
  \/ \E v \in Volumes : setVolume(v)
  \/ pause
  \/ play
  \/ timerFires

Spec == Init /\ [][Next]_vars

\* ------------------------------------------- the pan law on one input
Thetas == (0 - MaxTheta) .. MaxTheta

InitPan ==
  /\ panTheta \in Thetas
  /\ panNChans \in {2, 6}
  /\ panResult = <<>>
  /\ InitVoiceNone
  /\ destChannelCount = panNChans
  /\ maxChannelCount = panNChans
  /\ audioCtx = TRUE
  /\ initPc = "done"
  /\ initPromise = "fulfilled"
  /\ setupPc = "done"
  /\ setupPromise = "fulfilled"
  /\ deviceName = "default"
  /\ devLabels = {}

callGainsFromPan ==
  /\ panResult = <<>>
  /\ panResult' = gainsFromPan(panTheta, spkLayoutFromNChans(panNChans))
  /\ UNCHANGED <<panTheta, panNChans, initVars, destChannelCount, voiceVars>>

NextPan == callGainsFromPan

SpecPan == InitPan /\ [][NextPan]_vars

\* ------------------------------------------------- device initialisation
DeviceLabels == {"A", "B"}
DeviceNames == {"default", "A", "B", "C"}

\* new AudioContext(): destination.channelCount starts at 2
InitInit ==
  /\ InitPanIdle
  /\ InitVoiceNone
  /\ initPc = "idle"
  /\ initPromise = "none"
  /\ setupPc = "idle"
  /\ setupPromise = "none"
  /\ audioCtx = FALSE
  /\ deviceName = "default"
  /\ devLabels \in SUBSET DeviceLabels
  /\ maxChannelCount \in ChannelCounts
  /\ destChannelCount = 2

\* initAudio(name) up to its await of getUserMedia
initAudio(name) ==
  /\ initPc = "idle"
  /\ initPc' = "awaitPerm"
  /\ initPromise' = "pending"
  /\ deviceName' = name
  /\ UNCHANGED <<setupPc, setupPromise, audioCtx, devLabels, maxChannelCount,
                 destChannelCount, panVars, voiceVars>>

\* getUserMedia resolved: lines 39-41.  setupAudioDevice is called without
\* await: it runs to its own first await and initAudio returns
permissionGranted ==
  /\ initPc = "awaitPerm"
  /\ audioCtx' = TRUE
  /\ setupPc' = "awaitEnum"
  /\ setupPromise' = "pending"
  /\ initPc' = "done"
  /\ initPromise' = "fulfilled"
  /\ UNCHANGED <<deviceName, devLabels, maxChannelCount, destChannelCount,
                 panVars, voiceVars>>

\* getUserMedia rejected: the await at line 38 throws
permissionDenied ==
  /\ initPc = "awaitPerm"
  /\ initPc' = "done"
  /\ initPromise' = "rejected"
  /\ UNCHANGED <<setupPc, setupPromise, audioCtx, deviceName, devLabels,
                 maxChannelCount, destChannelCount, panVars, voiceVars>>

\* setDeviceChannels(ctx)
setDeviceChannels == destChannelCount' = maxChannelCount

\* enumerateDevices resolved: lines 18-31 up to the next await or the end
devicesEnumerated ==
  /\ setupPc = "awaitEnum"
  /\ IF deviceName = "default"
     THEN /\ setDeviceChannels
          /\ setupPc' = "done"
          /\ setupPromise' = "fulfilled"
     ELSE IF deviceName \in devLabels
     THEN /\ setupPc' = "awaitSink"
          /\ UNCHANGED <<setupPromise, destChannelCount>>
     ELSE /\ setupPc' = "done"
          /\ setupPromise' = "rejected"
          /\ UNCHANGED destChannelCount
  /\ UNCHANGED <<initPc, initPromise, audioCtx, deviceName, devLabels,
                 maxChannelCount, panVars, voiceVars>>

\* ctx.setSinkId resolved: lines 26-28
sinkSet ==
  /\ setupPc = "awaitSink"
  /\ setDeviceChannels
  /\ setupPc' = "done"
  /\ setupPromise' = "fulfilled"
  /\ UNCHANGED <<initPc, initPromise, audioCtx, deviceName, devLabels,
                 maxChannelCount, panVars, voiceVars>>

\* ctx.setSinkId rejected: the await at line 25 throws
sinkRejected ==
  /\ setupPc = "awaitSink"
  /\ setupPc' = "done"
  /\ setupPromise' = "rejected"
  /\ UNCHANGED <<initPc, initPromise, audioCtx, deviceName, devLabels,
                 maxChannelCount, destChannelCount, panVars, voiceVars>>

NextInit ==
  \/ \E name \in DeviceNames : initAudio(name)
  \/ permissionGranted
  \/ permissionDenied
  \/ devicesEnumerated
  \/ sinkSet
  \/ sinkRejected

SpecInit == InitInit /\ [][NextInit]_vars

\* ================================================================ claims
FullGain ==
  Times(1, gainFromCoords(listenerCoords, voiceCoords, listenRadius))

\* C1: after pause() on a voice playing at volume 1 and a play() before the
\* grace timer fires, with no further pause(), the media pause command is
\* never executed and the master gain pushed is back at 1 x attenuation.
C1_ReplayCancelsStop ==
  /\ grace # "stopped"
  /\ grace = "replayed" => lastGain = <<FullGain>>

\* C2: once the voice is constructed, the last master gain pushed is the
\* current volume x attenuation of the current coordinates and radius, and
\* the last pan pushed is the azimuth of the current coordinates.
C2_PushedMatchesFields ==
  voice = "ready" =>
    /\ lastGain = <<Times(volume, gainFromCoords(listenerCoords, voiceCoords,
                                                  listenRadius))>>
    /\ lastPan = <<panFromCoords(listenerCoords, voiceCoords)>>

\* C3: when the unsupported-layout error is raised, no merger has been
\* created or connected and no per-channel gain node created or connected.
C3_ErrorBeforeGraph ==
  err = "UnsupportedLayout" =>
    /\ merger = 0
    /\ ~mergerToDest
    /\ gainNodes = 0
    /\ mergerInputs = {}

\* the rotated angles of the layout under test, by the mathematical modulus
PanLayout == IF panNChans = 6 THEN Layout6 ELSE Layout2
Spatial == {i \in 1 .. Len(PanLayout) : ~PanLayout[i].null}
Rot(i) == (PanLayout[i].deg - panTheta) % FullCircle
RightSpk == CHOOSE i \in Spatial : \A j \in Spatial : Rot(i) <= Rot(j)
LeftSpk == CHOOSE i \in Spatial : \A j \in Spatial : Rot(i) >= Rot(j)
Span == (Rot(RightSpk) - Rot(LeftSpk)) % FullCircle

\* C4: gainsFromPan returns a vector of the layout's length; only the
\* channels of minimum and maximum rotated angle are panned, at the
\* normalised positions rel[right]/span and (360 - rel[left])/span, which sum
\* to 1 with span > 0; every other channel, the LFE included, is the
\* literal 0.
C4_PanLaw ==
  panResult # <<>> =>
    /\ DOMAIN panResult = 1 .. Len(PanLayout)
    /\ \A i \in DOMAIN panResult :
         i \notin {RightSpk, LeftSpk} => panResult[i] = ZeroGain
    /\ Span > 0
    /\ panResult[LeftSpk] = equalPowPan(FullCircle - Rot(LeftSpk), Span)
    /\ panResult[RightSpk] = equalPowPan(Rot(RightSpk), Span)
    /\ panResult[LeftSpk].num + panResult[RightSpk].num = Span

C4_Witness ==
  /\ panResult # <<>>
  /\ panNChans = 6
  /\ panTheta = 100
  /\ panResult[6].num > 0
  /\ panResult[5].num > 0
  /\ panResult[4] = ZeroGain

\* C5: a voice whose listen radius is not positive is rejected: an error is
\* raised and no master gain is pushed, whatever the coordinates.
C5_RadiusRejected ==
  (LayoutDefined(pannerNChans) /\ listenRadius <= 0) =>
    (voice = "failed" /\ lastGain = <<>>)

\* C6: for a destination of 6 or more channels the panner uses exactly 6
\* channels with the 6-channel layout, and no gain command or connection
\* ever involves a channel of index 6 or more.
C6_CappedAtSix ==
  (destChannelCount >= 6 /\ voice # "none") =>
    /\ pannerNChans = 6
    /\ gainNodes = 6
    /\ err # "UnsupportedLayout"
    /\ DOMAIN chanTargets = 1 .. 6
    /\ chanTargets[4] = ZeroGain
    /\ chanCmds \subseteq 0 .. 5
    /\ mergerInputs \subseteq 0 .. 5

C6_Witness ==
  /\ destChannelCount > 6
  /\ merger > 6
  /\ voice = "ready"
  /\ lastPan = <<45>>
  /\ volume = 2
  /\ chanCmds = 0 .. 5

\* C7: when the requested device is not "default" and matches no enumerated
\* output device, the promise of initAudio rejects, and it does not fulfil
\* before the device setup has finished.
C7_DeviceNotFoundSurfaced ==
  /\ initPromise = "fulfilled" => setupPc = "done"
  /\ (setupPc = "done" /\ deviceName # "default"
        /\ deviceName \notin devLabels /\ audioCtx)
       => initPromise = "rejected"

\* C8: a pause() on a playing voice pushes the master gain 0 and sets the
\* grace timer, so that the media pause command comes after the push, and a
\* media pause command is executed only by a grace timer that fires.
C8_FadeThenStop ==
  [][/\ (pauseCalls' = pauseCalls + 1 /\ playing)
          => (lastGain' = <<Fin(0, 1)>> /\ timers' = timers + 1)
     /\ mediaPauses' # mediaPauses
          => (timers' = timers - 1 /\ mediaPauses' = mediaPauses + 1)]_vars

\* C9: when the target azimuth equals the angle of a spatial speaker modulo
\* 360, that speaker is panned at normalised position 0 (gain 1), one other
\* speaker at normalised position exactly 1, and all others are the
\* literal 0.
C9_ExactAlignment ==
  panResult # <<>> =>
    \A i \in Spatial :
      Rot(i) = 0 =>
        /\ panResult[i].pan
        /\ panResult[i].num = 0
        /\ panResult[i].den > 0
        /\ \A j \in DOMAIN panResult \ {i} :
             \/ panResult[j] = ZeroGain
             \/ panResult[j].pan /\ panResult[j].num = panResult[j].den
        /\ Cardinality({j \in DOMAIN panResult : panResult[j].pan}) = 2

C9_Witness ==
  /\ panResult # <<>>
  /\ panNChans = 6
  /\ panTheta = StraightAhead
  /\ panResult[3] = equalPowPan(0, 30)
  /\ panResult[1] = equalPowPan(30, 30)
  /\ panResult[2] = ZeroGain

\* C10: every pause() call sets a grace timer that only its firing removes:
\* the media pause commands executed never exceed the pause() calls made,
\* and the calls not yet followed by their command have a timer pending.
C10_OneTimerPerPause ==
  /\ mediaPauses <= pauseCalls
  /\ pauseCalls = mediaPauses + timers

====
